---------------------------- MODULE Spec2Model ----------------------------
(*************************************************************************)
(* Model of commits.py: export of the signed commits of a git history to *)
(* a CSV file.  Strings are sequences of one-character tokens; the two   *)
(* non-printable separators and the undecodable byte are written as      *)
(* named tokens.                                                          *)
(*************************************************************************)
EXTENDS Naturals, Integers, Sequences, FiniteSets

VARIABLES pc, stages, out, recs, signed, csvFile, console, exitCode,
          sanIn, sanOut

vars == <<pc, stages, out, recs, signed, csvFile, console, exitCode,
          sanIn, sanOut>>

-----------------------------------------------------------------------------
(* Bounds of the model *)

MaxLen == 8

MaxData == 3

MaxStrLen == 4

-----------------------------------------------------------------------------
(* Characters *)

FIELD_SEP == "<US>"

RECORD_SEP == "<RS>"

BadByte == "<xFF>"

ReplacementChar == "<U+FFFD>"

None == <<"<None>">>

(* characters str.strip() removes, among those of the model *)
Whitespace == {" ", "\t", "\n", "\r", FIELD_SEP, RECORD_SEP}

(* bytes the history command may write between two field separators *)
DataBytes == {"a", "N", " ", "\n", "\r", RECORD_SEP}

Bytes == DataBytes \cup {FIELD_SEP}

(* the text of length n with the bytes g at the places P and field *)
(* separators everywhere else                                       *)
TextOf(n, P, g) == [i \in 1..n |-> IF i \in P THEN g[i] ELSE FIELD_SEP]

(* places of at most MaxData bytes other than the field separator *)
DataPlaces(n) == {P \in SUBSET (1..n) : Cardinality(P) <= MaxData}

(* outputs of a failed git log *)
ErrTexts == {<<>>, <<"a">>, <<BadByte>>}

(* characters of the arguments given to sanitize_field on its own *)
SanChars == {"a", " ", "\t", "\r", "\n", ",", FIELD_SEP, RECORD_SEP}

(* arguments of sanitize_field: every string up to MaxStrLen, and None *)
SanInputs == UNION {[1..n -> SanChars] : n \in 0..MaxStrLen} \cup {None}

-----------------------------------------------------------------------------
(* Pure functions of commits.py *)

(* bytes.decode("utf-8", errors="replace") *)
Decode(b) == [i \in 1..Len(b) |-> IF b[i] = BadByte THEN ReplacementChar
                                  ELSE b[i]]

(* str.replace(old, new) for one-character old and new *)
Replace(s, old, new) == [i \in 1..Len(s) |-> IF s[i] = old THEN new ELSE s[i]]

(* str.rstrip() in the place of str.strip() *)
Strip_right_only(s) ==
  LET keep == {i \in 1..Len(s) : s[i] \notin Whitespace}
  IN  IF keep = {} THEN <<>>
      ELSE SubSeq(s, 1, CHOOSE i \in keep : \A j \in keep : j <= i)

(* str.strip() *)
Strip(s) ==
  LET keep == {i \in 1..Len(s) : s[i] \notin Whitespace}
  IN  IF keep = {} THEN <<>>
      ELSE LET lo == CHOOSE i \in keep : \A j \in keep : i <= j
               hi == CHOOSE i \in keep : \A j \in keep : j <= i
           IN  SubSeq(s, lo, hi)

(* sanitize_field without the final strip() *)
sanitize_field_nostrip(s) ==
  IF s = None THEN <<>>
  ELSE Replace(Replace(Replace(Replace(s, "\r", " "), "\n", " "),
                       FIELD_SEP, ","), RECORD_SEP, "\n")

sanitize_field(s) ==
  IF s = None THEN <<>>
  ELSE Strip(Replace(Replace(Replace(Replace(s, "\r", " "), "\n", " "),
                             FIELD_SEP, ","), RECORD_SEP, "\n"))

(* str.split(sep) for a one-character sep *)
RECURSIVE Split(_, _)
Split(s, sep) ==
  LET at == {i \in 1..Len(s) : s[i] = sep}
  IN  IF at = {} THEN <<s>>
      ELSE LET i == CHOOSE k \in at : \A j \in at : k <= j
           IN  <<SubSeq(s, 1, i - 1)>> \o Split(SubSeq(s, i + 1, Len(s)), sep)

FieldOrder == <<"commit_hash", "author_name", "author_email", "date_iso",
                "sig_status", "signer_name", "key_id", "verification_text">>

NFields == 8

(* the padding put before the fields present *)
PadParts_front(parts) ==
  IF Len(parts) < NFields
  THEN [i \in 1..(NFields - Len(parts)) |-> <<>>] \o parts
  ELSE parts

(* if len(parts) < 8: parts += [""] * (8 - len(parts)) *)
PadParts(parts) ==
  IF Len(parts) < NFields
  THEN parts \o [i \in 1..(NFields - Len(parts)) |-> <<>>]
  ELSE parts

(* the body of the loop of parse_git_output for one non-empty raw_rec *)
ParseRecord(raw_rec) ==
  LET parts == SubSeq(PadParts(Split(raw_rec, FIELD_SEP)), 1, NFields)
  IN  [commit_hash       |-> sanitize_field(parts[1]),
       author_name       |-> sanitize_field(parts[2]),
       author_email      |-> sanitize_field(parts[3]),
       date_iso          |-> sanitize_field(parts[4]),
       sig_status        |-> sanitize_field(parts[5]),
       signer_name       |-> sanitize_field(parts[6]),
       key_id            |-> sanitize_field(parts[7]),
       verification_text |-> sanitize_field(parts[8])]

(* the loop without "if not raw_rec: continue" *)
Candidates_keep_empty(text) == Split(text, RECORD_SEP)

(* for raw_rec in text.split(RECORD_SEP): if not raw_rec: continue *)
Candidates(text) ==
  SelectSeq(Split(text, RECORD_SEP), LAMBDA c : c # <<>>)

(* records.insert(0, ...) in the place of records.append(...) *)
parse_git_output_reversed(text) ==
  LET cands == Candidates(text)
  IN  [i \in 1..Len(cands) |-> ParseRecord(cands[Len(cands) + 1 - i])]

parse_git_output(text) ==
  LET cands == Candidates(text)
  IN  [i \in 1..Len(cands) |-> ParseRecord(cands[i])]

(* dict.get(key, default) *)
Get(r, key, default) == IF key \in DOMAIN r THEN r[key] ELSE default

(* the comparison with "N" inverted *)
filter_signed_inverted(records) ==
  SelectSeq(records, LAMBDA r : Get(r, "sig_status", <<"N">>) = <<"N">>)

(* an empty sig_status taken for "no signature" as well *)
filter_signed_truthy(records) ==
  SelectSeq(records, LAMBDA r : Get(r, "sig_status", <<"N">>) \notin {<<"N">>, <<>>})

filter_signed(records) ==
  SelectSeq(records, LAMBDA r : Get(r, "sig_status", <<"N">>) # <<"N">>)

(* author_email preferred to signer_name *)
best_who_field_email_first(rec) ==
  IF Get(rec, "author_email", <<>>) # <<>> THEN rec["author_email"]
  ELSE IF Get(rec, "signer_name", <<>>) # <<>> THEN rec["signer_name"]
  ELSE Get(rec, "author_name", <<>>)

best_who_field(rec) ==
  IF Get(rec, "signer_name", <<>>) # <<>> THEN rec["signer_name"]
  ELSE IF Get(rec, "author_email", <<>>) # <<>> THEN rec["author_email"]
  ELSE Get(rec, "author_name", <<>>)

fieldnames == <<"commit_hash", "who", "who_email", "date_iso", "sig_status",
                "key_id", "verification_text">>

(* the dictionary write_csv hands to writer.writerow *)
CsvRow(r) ==
  [commit_hash       |-> r["commit_hash"],
   who               |-> best_who_field(r),
   who_email         |-> Get(r, "author_email", <<>>),
   date_iso          |-> Get(r, "date_iso", <<>>),
   sig_status        |-> Get(r, "sig_status", <<>>),
   key_id            |-> Get(r, "key_id", <<>>),
   verification_text |-> Get(r, "verification_text", <<>>)]

CsvRows(records) == [i \in 1..Len(records) |-> CsvRow(records[i])]

-----------------------------------------------------------------------------
(* The run of main() *)

NoExit == -1

NoFile == [exists |-> FALSE, header |-> <<>>, rows |-> <<>>]

Stage(name, ok) == [name |-> name, ok |-> ok]

Exit(code) == pc' = "exited" /\ exitCode' = code

Init ==
  /\ pc = "parse_args"
  /\ stages = <<>>
  /\ out = <<>>
  /\ recs = <<>>
  /\ signed = <<>>
  /\ csvFile = NoFile
  /\ console = <<>>
  /\ exitCode = NoExit
  /\ sanIn = <<>>
  /\ sanOut = <<>>

(* p.parse_args(): the arguments are accepted, or argparse reports a usage *)
(* error and exits 2, or it prints the help (-h) and exits 0               *)
ParseArgs ==
  /\ pc = "parse_args"
  /\ \E outcome \in {"ok", "usage", "help"} :
       CASE outcome = "ok"    -> pc' = "check_repo" /\ exitCode' = exitCode
                                 /\ console' = console
         [] outcome = "usage" -> Exit(2) /\ console' = Append(console, <<"usage error">>)
         [] outcome = "help"  -> Exit(0) /\ console' = Append(console, <<"usage">>)
  /\ UNCHANGED <<stages, out, recs, signed, csvFile, sanIn, sanOut>>

(* the check without sys.exit(1): the message is printed and the run goes on *)
CheckRepo_noexit ==
  /\ pc = "check_repo"
  /\ \E repoExists \in BOOLEAN, dotGitExists \in BOOLEAN :
       /\ dotGitExists => repoExists
       /\ pc' = "run_git_log"
       /\ exitCode' = exitCode
       /\ IF ~dotGitExists /\ ~repoExists
          THEN /\ console' = Append(console, <<"is not a git-repository">>)
               /\ stages' = Append(stages, Stage("check_repo", FALSE))
          ELSE /\ console' = console
               /\ stages' = Append(stages, Stage("check_repo", TRUE))
  /\ UNCHANGED <<out, recs, signed, csvFile, sanIn, sanOut>>

(* if not (repo_path / ".git").exists() and not repo_path.exists(): exit 1 *)
CheckRepo ==
  /\ pc = "check_repo"
  /\ \E repoExists \in BOOLEAN, dotGitExists \in BOOLEAN :
       /\ dotGitExists => repoExists
       /\ IF ~dotGitExists /\ ~repoExists
          THEN /\ Exit(1)
               /\ console' = Append(console, <<"is not a git-repository">>)
               /\ stages' = Append(stages, Stage("check_repo", FALSE))
          ELSE /\ pc' = "run_git_log"
               /\ exitCode' = exitCode
               /\ console' = console
               /\ stages' = Append(stages, Stage("check_repo", TRUE))
  /\ UNCHANGED <<out, recs, signed, csvFile, sanIn, sanOut>>

(* print("1/4 run_git_log"); out = run_git_log(repo_path, args.number) *)
RunGitLog ==
  /\ pc = "run_git_log"
  /\ \/ \E n \in 0..MaxLen :
        \E P \in DataPlaces(n) :
        \E g \in [P -> DataBytes] :
          /\ out' = Decode(TextOf(n, P, g))
          /\ pc' = "parse_git_output"
          /\ exitCode' = exitCode
          /\ console' = Append(console, <<"1/4 run_git_log">>)
          /\ stages' = Append(stages, Stage("run_git_log", TRUE))
     \/ \E b \in ErrTexts :
          /\ out' = out
          /\ Exit(1)
          /\ console' = console \o <<<<"1/4 run_git_log">>,
                                     <<"git log error:", Decode(b)>>>>
          /\ stages' = Append(stages, Stage("run_git_log", FALSE))
  /\ UNCHANGED <<recs, signed, csvFile, sanIn, sanOut>>

(* print("2/4 parse_git_output"); recs = parse_git_output(out) *)
ParseGitOutput ==
  /\ pc = "parse_git_output"
  /\ recs' = parse_git_output(out)
  /\ pc' = "filter_signed"
  /\ console' = Append(console, <<"2/4 parse_git_output">>)
  /\ stages' = Append(stages, Stage("parse_git_output", TRUE))
  /\ UNCHANGED <<out, signed, csvFile, exitCode, sanIn, sanOut>>

(* print("3/4 filter_signed"); signed = filter_signed(recs); print(Found) *)
FilterSigned ==
  /\ pc = "filter_signed"
  /\ signed' = filter_signed(recs)
  /\ pc' = "write_csv"
  /\ console' = console \o <<<<"3/4 filter_signed">>,
                             <<"Found", Len(signed'), Len(recs)>>>>
  /\ stages' = Append(stages, Stage("filter_signed", TRUE))
  /\ UNCHANGED <<out, recs, csvFile, exitCode, sanIn, sanOut>>

(* print("4/4 write_csv"); write_csv(signed, args.output): the file is    *)
(* written whole, or open() fails, or a write fails part of the way      *)
WriteCsv ==
  /\ pc = "write_csv"
  /\ console' = Append(console, <<"4/4 write_csv">>)
  /\ \/ /\ csvFile' = [exists |-> TRUE, header |-> fieldnames,
                       rows |-> CsvRows(signed)]
        /\ stages' = Append(stages, Stage("write_csv", TRUE))
        /\ Exit(0)
     \/ /\ csvFile' = csvFile
        /\ stages' = Append(stages, Stage("write_csv", FALSE))
        /\ Exit(1)
     \/ /\ \/ csvFile' = [exists |-> TRUE, header |-> <<>>, rows |-> <<>>]
           \/ \E k \in 0..Len(signed) :
                csvFile' = [exists |-> TRUE, header |-> fieldnames,
                            rows |-> SubSeq(CsvRows(signed), 1, k)]
        /\ stages' = Append(stages, Stage("write_csv", FALSE))
        /\ Exit(1)
  /\ UNCHANGED <<out, recs, signed, sanIn, sanOut>>

Next ==
  \/ ParseArgs
  \/ CheckRepo
  \/ RunGitLog
  \/ ParseGitOutput
  \/ FilterSigned
  \/ WriteCsv

Spec == Init /\ [][Next]_vars

-----------------------------------------------------------------------------
(* sanitize_field on its own, applied to every string of SanInputs *)

SanInit ==
  /\ pc = "sanitize_field"
  /\ sanIn \in SanInputs
  /\ sanOut = <<>>
  /\ stages = <<>>
  /\ out = <<>>
  /\ recs = <<>>
  /\ signed = <<>>
  /\ csvFile = NoFile
  /\ console = <<>>
  /\ exitCode = NoExit

SanitizeField ==
  /\ pc = "sanitize_field"
  /\ sanOut' = sanitize_field(sanIn)
  /\ pc' = "sanitized"
  /\ UNCHANGED <<stages, out, recs, signed, csvFile, console, exitCode, sanIn>>

SanNext == SanitizeField

SanSpec == SanInit /\ [][SanNext]_vars

-----------------------------------------------------------------------------
(* Vocabulary of the properties, stated on positions of the raw text and   *)
(* not through Split, Candidates or SelectSeq                              *)

NoneOf(s, set) == \A i \in 1..Len(s) : s[i] \notin set

(* the k-th smallest element of a finite set of numbers *)
Nth(S, k) == CHOOSE x \in S : Cardinality({y \in S : y <= x}) = k

Cuts(s, sep) == {0, Len(s) + 1} \cup {i \in 1..Len(s) : s[i] = sep}

NumPieces(s, sep) == Cardinality(Cuts(s, sep)) - 1

(* the k-th piece of s between two consecutive occurrences of sep *)
Piece(s, sep, k) ==
  SubSeq(s, Nth(Cuts(s, sep), k) + 1, Nth(Cuts(s, sep), k + 1) - 1)

(* numbers of the pieces of the raw text that are not empty *)
NonEmptyPieces(text) ==
  {k \in 1..NumPieces(text, RECORD_SEP) : Piece(text, RECORD_SEP, k) # <<>>}

(* the i-th non-empty candidate record of the raw text *)
Candidate(text, i) == Piece(text, RECORD_SEP, Nth(NonEmptyPieces(text), i))

HasRun(name) == \E i \in 1..Len(stages) : stages[i].name = name

Succeeded(name) ==
  \E i \in 1..Len(stages) : stages[i].name = name /\ stages[i].ok

(* positions of the records the filter has to keep *)
Kept(records) ==
  {i \in 1..Len(records) : records[i]["sig_status"] # <<"N">>}

IsKeptSubsequence(result, records) ==
  /\ Len(result) = Cardinality(Kept(records))
  /\ Len(result) <= Len(records)
  /\ \A j \in 1..Len(result) : result[j] = records[Nth(Kept(records), j)]
  /\ \A i \in 1..Len(records) :
       (\E j \in 1..Len(result) : result[j] = records[i])
         <=> records[i]["sig_status"] # <<"N">>

-----------------------------------------------------------------------------
(* C1: filter_signed returns exactly the sub-sequence of its input whose   *)
(* sig_status is not "N": membership iff not "N", order and multiplicity   *)
(* kept, never longer than the input, and the input list is left as it was *)
C1_FilterIsKeptSubsequence ==
  [][pc = "filter_signed" =>
       /\ recs' = recs
       /\ IsKeptSubsequence(signed', recs)]_vars

(* a run in which the filter has dropped a record and kept a later one *)
C1_Witness ==
  /\ Succeeded("filter_signed")
  /\ Len(recs) = 2
  /\ Len(signed) = 1
  /\ recs[1]["sig_status"] = <<"N">>
  /\ signed[1] = recs[2]

(* C2: the result of sanitize_field contains no field separator, no record *)
(* separator, no carriage return and no line feed, whatever the input      *)
C2_SanitizedHasNoSeparatorOrNewline ==
  pc = "sanitized" =>
    NoneOf(sanOut, {FIELD_SEP, RECORD_SEP, "\r", "\n"})

(* C3: every record parse_git_output emits has the eight fields, and no    *)
(* field value contains a separator or a line break or has leading or      *)
(* trailing whitespace                                                     *)
C3_ParsedFieldsNormalized ==
  \A i \in 1..Len(recs) :
    /\ DOMAIN recs[i] = {FieldOrder[j] : j \in 1..NFields}
    /\ \A f \in DOMAIN recs[i] :
         LET v == recs[i][f]
         IN  /\ NoneOf(v, {FIELD_SEP, RECORD_SEP, "\r", "\n"})
             /\ v # <<>> => v[1] \notin Whitespace /\ v[Len(v)] \notin Whitespace

(* a record parsed from raw text with a line break on each side of a value *)
C3_Witness ==
  /\ Succeeded("parse_git_output")
  /\ out = <<"\n", "a", "\r">>
  /\ Len(recs) = 1
  /\ recs[1]["commit_hash"] = <<"a">>

(* C4: one record per non-empty candidate of the raw text, in the order of *)
(* the candidates, and the data rows of the written file are the rows of   *)
(* the kept records in that same order, duplicates included                *)
C4_OrderPreserved ==
  /\ Succeeded("parse_git_output") =>
       /\ Len(recs) = Cardinality(NonEmptyPieces(out))
       /\ \A i \in 1..Len(recs) : recs[i] = ParseRecord(Candidate(out, i))
  /\ Succeeded("write_csv") =>
       /\ Len(csvFile.rows) = Cardinality(Kept(recs))
       /\ \A j \in 1..Len(csvFile.rows) :
            csvFile.rows[j] = CsvRow(recs[Nth(Kept(recs), j)])

(* a written file with two rows of the same hash *)
C4_Witness ==
  /\ Succeeded("write_csv")
  /\ out = <<"a", RECORD_SEP, "a">>
  /\ Len(csvFile.rows) = 2
  /\ csvFile.rows[1]["commit_hash"] = <<"a">>
  /\ csvFile.rows[2]["commit_hash"] = <<"a">>

(* C5: the who column of a row is signer_name if that is not empty, else   *)
(* author_email if that is not empty, else author_name; who_email is       *)
(* always author_email                                                     *)
C5_WhoPriority ==
  \A j \in 1..Len(csvFile.rows) :
    LET r == signed[j]
        row == csvFile.rows[j]
    IN  /\ r["signer_name"] # <<>> => row["who"] = r["signer_name"]
        /\ r["signer_name"] = <<>> /\ r["author_email"] # <<>>
             => row["who"] = r["author_email"]
        /\ r["signer_name"] = <<>> /\ r["author_email"] = <<>>
             => row["who"] = r["author_name"]
        /\ row["who_email"] = r["author_email"]

(* a row whose record has a signer name and a different author email *)
C5_Witness ==
  /\ Succeeded("write_csv")
  /\ Len(csvFile.rows) = 1
  /\ signed[1]["signer_name"] = <<"a">>
  /\ signed[1]["author_email"] = <<"N">>
  /\ csvFile.rows[1]["who"] = <<"a">>
  /\ csvFile.rows[1]["who_email"] = <<"N">>

(* C6: a non-empty candidate with k < 8 fields is parsed without failure   *)
(* into a record whose first k fields are the sanitized fields present and *)
(* whose last 8 - k fields are empty                                       *)
C6_PaddingOnTruncation ==
  Succeeded("parse_git_output") =>
    /\ pc = "filter_signed" \/ HasRun("filter_signed")
    /\ Len(recs) = Cardinality(NonEmptyPieces(out))
    /\ \A i \in 1..Len(recs) :
         LET c == Candidate(out, i)
             k == NumPieces(c, FIELD_SEP)
         IN  k < NFields =>
               \A j \in 1..NFields :
                 recs[i][FieldOrder[j]] =
                   IF j <= k THEN sanitize_field(Piece(c, FIELD_SEP, j))
                   ELSE <<>>

(* a parsed record of three fields, all three with a value *)
C6_Witness ==
  /\ Succeeded("parse_git_output")
  /\ Len(recs) = 1
  /\ NumPieces(out, FIELD_SEP) = 3
  /\ recs[1]["commit_hash"] = <<"a">>
  /\ recs[1]["author_name"] = <<"N">>
  /\ recs[1]["author_email"] = <<"a">>
  /\ \A j \in 4..NFields : recs[1][FieldOrder[j]] = <<>>

StageOrder == <<"check_repo", "run_git_log", "parse_git_output",
                "filter_signed", "write_csv">>

(* the stages run at most once, in order, each after the success of all   *)
(* the earlier ones, and only the writer touches the output file           *)
FailStop ==
  /\ Len(stages) <= Len(StageOrder)
  /\ \A i \in 1..Len(stages) : stages[i].name = StageOrder[i]
  /\ \A i \in 1..Len(stages) : i < Len(stages) => stages[i].ok
  /\ csvFile # NoFile => HasRun("write_csv")
  /\ pc = "exited" <=> exitCode # NoExit
  /\ Succeeded("write_csv") => exitCode = 0

(* the run in which argparse printed the help and left *)
HelpRun == stages = <<>> /\ console = <<<<"usage">>>>

(* C7 as stated: fail-stop, strictly ordered stages, and exit status zero  *)
(* only when the writer has completed                                      *)
C7_FailStopZeroOnlyAfterWriter ==
  /\ FailStop
  /\ exitCode = 0 => Succeeded("write_csv")

(* C7 amended: fail-stop, strictly ordered stages, and exit status zero    *)
(* only when the writer has completed or when the help was asked for,      *)
(* which ends the run before any stage                                     *)
C7_FailStopZeroAfterWriterOrHelp ==
  /\ FailStop
  /\ exitCode = 0 => Succeeded("write_csv") \/ HelpRun
  /\ HelpRun => pc = "exited" /\ exitCode = 0 /\ csvFile = NoFile

(* a run that the failure of the history command has ended *)
C7_Witness ==
  /\ pc = "exited"
  /\ Len(stages) = 2
  /\ stages[1].ok
  /\ ~stages[2].ok
  /\ exitCode = 1
  /\ csvFile = NoFile

(* C8: raw text that is empty or made of record separators only gives no   *)
(* record, and the file written from it has the header and no data row     *)
C8_EmptyInput ==
  (\A i \in 1..Len(out) : out[i] = RECORD_SEP) =>
    /\ Succeeded("parse_git_output") => recs = <<>>
    /\ Succeeded("filter_signed") => signed = <<>>
    /\ Succeeded("write_csv") =>
         csvFile = [exists |-> TRUE, header |-> fieldnames, rows |-> <<>>]

(* a completed run on two record separators *)
C8_Witness ==
  /\ Succeeded("write_csv")
  /\ out = <<RECORD_SEP, RECORD_SEP>>
  /\ csvFile.exists
  /\ Len(csvFile.header) = 7
  /\ csvFile.rows = <<>>

(* t is s without a leading and a trailing run of whitespace, and has none *)
IsTrimOf(t, s) ==
  \E lo \in 0..Len(s), hi \in 0..Len(s) :
    /\ \A i \in 1..lo : s[i] \in Whitespace
    /\ \A i \in (hi + 1)..Len(s) : s[i] \in Whitespace
    /\ lo <= hi
    /\ t = SubSeq(s, lo + 1, hi)
    /\ t # <<>> => t[1] \notin Whitespace /\ t[Len(t)] \notin Whitespace

(* C9: on a string without separators and line breaks sanitize_field       *)
(* returns the string with its leading and trailing whitespace removed     *)
C9_IdentityUpToTrimming ==
  pc = "sanitized" /\ sanIn # None
      /\ NoneOf(sanIn, {FIELD_SEP, RECORD_SEP, "\r", "\n"})
    => IsTrimOf(sanOut, sanIn)

(* a trimmed string that keeps a blank between two letters *)
C9_Witness ==
  /\ pc = "sanitized"
  /\ sanIn = <<"\t", "a", " ", "a">>
  /\ sanOut = <<"a", " ", "a">>

(* C10: a non-empty candidate with fewer than five fields gets the empty   *)
(* sig_status, is kept by the filter and is written as a data row          *)
C10_TruncatedRecordExported ==
  \A i \in 1..Cardinality(NonEmptyPieces(out)) :
    NumPieces(Candidate(out, i), FIELD_SEP) < 5 =>
      /\ Succeeded("parse_git_output") =>
           i <= Len(recs) /\ recs[i]["sig_status"] = <<>>
      /\ Succeeded("filter_signed") =>
           \E j \in 1..Len(signed) : signed[j] = recs[i]
      /\ Succeeded("write_csv") =>
           \E j \in 1..Len(csvFile.rows) :
             /\ csvFile.rows[j] = CsvRow(recs[i])
             /\ csvFile.rows[j]["sig_status"] = <<>>

(* a written row for a candidate made of a line break only *)
C10_Witness ==
  /\ Succeeded("write_csv")
  /\ out = <<"\n">>
  /\ Len(csvFile.rows) = 1
  /\ csvFile.rows[1]["commit_hash"] = <<>>
  /\ csvFile.rows[1]["sig_status"] = <<>>

=============================================================================
